---- MODULE Spec2Model ----
(***************************************************************************)
(* Model of the logistics dashboard: the storage layer (TestMemStorage),   *)
(* the Express application built by createTestApp, the insert schemas,     *)
(* the RouteOptimizer component, the applications built by                 *)
(* createAuthTestApp and createBackupTestApp, and the logger.              *)
(*                                                                         *)
(* A JavaScript value is a record [t, s, n, d, a]: t is the type tag,      *)
(* s the text of a string, n/d a number as a fraction, a the elements of   *)
(* an array of strings.  A JavaScript object is a function from the names  *)
(* of its own properties to values; an absent property is a name outside   *)
(* the function's domain.  A JavaScript Map is the sequence of its entries *)
(* in insertion order.                                                     *)
(***************************************************************************)
EXTENDS Integers, Sequences, FiniteSets, TLC

VARIABLES
    shops, drivers, routes, targets, idCounter,  \* TestMemStorage fields
    call, ret,            \* the last storage call and what it returned
    issued,               \* ids returned by the create methods, in order
    deleted,              \* ids whose delete returned true
    appShops, appDrivers, appRoutes, appTargets, appIdCounter, \* createTestApp
    req, res,             \* the last HTTP request and its response
    parsed,               \* the last safeParse: schema, input and result
    selectedRoute, mutation, inFlight, sent, toasts, invalidations,
                          \* RouteOptimizer: component and mutation state
    currentSession,       \* createAuthTestApp: the simulated session
    authLog,              \* the requests made to it, each with its response
    isLoggedIn,           \* createBackupTestApp: the simulated login flag
    CRON_SECRET,          \* process.env.CRON_SECRET ("" when unset)
    backupLog,            \* the requests made to it, each with its response
    logLevel,             \* config.logLevel
    logCalls,             \* the calls of log made so far
    console               \* what the calls wrote to the console

storeVars == <<shops, drivers, routes, targets, idCounter, call, ret, issued, deleted>>
appVars == <<appShops, appDrivers, appRoutes, appTargets, appIdCounter, req, res>>
schemaVars == <<parsed>>
uiVars == <<selectedRoute, mutation, inFlight, sent, toasts, invalidations>>
authVars == <<currentSession, authLog>>
backupVars == <<isLoggedIn, CRON_SECRET, backupLog>>
logVars == <<logLevel, logCalls, console>>
vars == <<shops, drivers, routes, targets, idCounter, call, ret, issued, deleted,
          appShops, appDrivers, appRoutes, appTargets, appIdCounter, req, res,
          parsed, selectedRoute, mutation, inFlight, sent, toasts, invalidations,
          currentSession, authLog, isLoggedIn, CRON_SECRET, backupLog,
          logLevel, logCalls, console>>

\* What a step of one component leaves alone.
notStoreVars == <<appVars, schemaVars, uiVars, authVars, backupVars, logVars>>
notAppVars == <<storeVars, schemaVars, uiVars, authVars, backupVars, logVars>>
notSchemaVars == <<storeVars, appVars, uiVars, authVars, backupVars, logVars>>
notUiVars == <<storeVars, appVars, schemaVars, authVars, backupVars, logVars>>
notAuthVars == <<storeVars, appVars, schemaVars, uiVars, backupVars, logVars>>
notBackupVars == <<storeVars, appVars, schemaVars, uiVars, authVars, logVars>>
notLogVars == <<storeVars, appVars, schemaVars, uiVars, authVars, backupVars>>

\* The number of ids one store instance issues in a checked run.
MaxIds == 2

\* The number of optimization requests one client session issues.
MaxRequests == 3

\* The number of requests made to the authentication application, and to
\* the backup application.
MaxExchanges == 3

\* The number of calls of log.
MaxLogCalls == 3

-----------------------------------------------------------------------------
(* JavaScript values *)

Str(s) == [t |-> "string", s |-> s, n |-> 0, d |-> 1, a |-> <<>>]
Num(n, d) == [t |-> "number", s |-> "", n |-> n, d |-> d, a |-> <<>>]
Arr(a) == [t |-> "array", s |-> "", n |-> 0, d |-> 1, a |-> a]
Null == [t |-> "null", s |-> "", n |-> 0, d |-> 1, a |-> <<>>]
Bool(b) == [t |-> "boolean", s |-> "", n |-> IF b THEN 1 ELSE 0, d |-> 1, a |-> <<>>]

EmptyObject == [f \in {} |-> Null]

\* One own property, {[name]: v}.
Prop(name, v) == [f \in {name} |-> v]

\* Object spread {...a, ...b}: b's properties win.
SpreadLeftWins(a, b) ==
    [f \in (DOMAIN a) \cup (DOMAIN b) |-> IF f \in DOMAIN a THEN a[f] ELSE b[f]]

Spread(a, b) ==
    [f \in (DOMAIN a) \cup (DOMAIN b) |-> IF f \in DOMAIN b THEN b[f] ELSE a[f]]

-----------------------------------------------------------------------------
(* JavaScript Map: entries in insertion order *)

MapKeys(m) == {m[i].key : i \in 1..Len(m)}

MapHas(m, k) == k \in MapKeys(m)

MapIndex(m, k) == CHOOSE i \in 1..Len(m) : m[i].key = k

\* Map.prototype.get for a key the map has (callers test MapHas first).
MapGet(m, k) == m[MapIndex(m, k)].value

\* Map.prototype.set: an existing key keeps its position.
MapSetMovesToEnd(m, k, v) ==
    Append(SelectSeq(m, LAMBDA e : e.key # k), [key |-> k, value |-> v])

MapSet(m, k, v) ==
    IF MapHas(m, k)
    THEN [i \in 1..Len(m) |-> IF m[i].key = k THEN [key |-> k, value |-> v] ELSE m[i]]
    ELSE Append(m, [key |-> k, value |-> v])

\* Map.prototype.delete: the remaining entries keep their order.
MapDelete(m, k) == SelectSeq(m, LAMBDA e : e.key # k)

\* Array.from(m.values())
MapValues(m) == [i \in 1..Len(m) |-> m[i].value]

-----------------------------------------------------------------------------
(* Return values of the storage methods *)

RetNone == [t |-> "none", rec |-> EmptyObject, b |-> FALSE, list |-> <<>>]
RetUndefined == [t |-> "undefined", rec |-> EmptyObject, b |-> FALSE, list |-> <<>>]
RetRecord(r) == [t |-> "record", rec |-> r, b |-> FALSE, list |-> <<>>]
RetBool(b) == [t |-> "boolean", rec |-> EmptyObject, b |-> b, list |-> <<>>]
RetList(l) == [t |-> "array", rec |-> EmptyObject, b |-> FALSE, list |-> l]

Call(op, kind, id, data) == [op |-> op, kind |-> kind, id |-> id, data |-> data]

NoCall == Call("none", "none", "", EmptyObject)

-----------------------------------------------------------------------------
(* Inputs of the checked runs *)

Kinds == {"Shop", "Driver", "Route", "Target"}

\* `++this.idCounter`
incIdCounterForgotten(c) == c

incIdCounter(c) == c + 1

\* TestMemStorage.genId on a store whose counter is c.
genId(c) == "test-id-" \o ToString(incIdCounter(c))

\* The ids a caller looks up: every id the store can issue, and one it never does.
LookupIds == {genId(c) : c \in 0..(MaxIds - 1)} \cup {"no-such-id"}

Lat == Num(-125, 100)
Lng == Num(3686, 100)

ShopData == {
    [name |-> Str("Old Name"), latitude |-> Lat, longitude |-> Lng,
     category |-> Str("retail"), status |-> Str("active")] }

ShopUpdates == {
    [name |-> Str("New Name")],
    [id |-> Str("test-id-2"), notes |-> Null] }

\* A caller may pass an object that already has an id property.
DriverData == {
    [id |-> Str("test-id-1"), name |-> Str("Sam"), phone |-> Str("+254700000000"),
     vehicleType |-> Str("van"), status |-> Str("available")] }

DriverUpdates == { [status |-> Str("on_route")], [status |-> Str("suspended")] }

RouteData == {
    [name |-> Str("Morning Route A"), driverId |-> Str("test-id-1"),
     shopIds |-> Arr(<<"test-id-1", "shop-2">>), status |-> Str("planned"),
     date |-> Str("2026-02-18")] }

RouteUpdates == { [status |-> Str("in_progress"), estimatedTime |-> Num(45, 1)] }

TargetData == {
    [driverId |-> Str("test-id-1"), period |-> Str("daily"),
     targetShops |-> Num(10, 1), targetDeliveries |-> Num(20, 1),
     completedShops |-> Num(0, 1), completedDeliveries |-> Num(0, 1),
     startDate |-> Str("2026-02-18"), endDate |-> Str("2026-02-18")] }

TargetUpdates == { [completedShops |-> Num(5, 1), completedDeliveries |-> Num(8, 1)] }

-----------------------------------------------------------------------------
(* TestMemStorage *)

StoreInit ==
    /\ shops = <<>> /\ drivers = <<>> /\ routes = <<>> /\ targets = <<>>
    /\ idCounter = 0
    /\ call = NoCall /\ ret = RetNone
    /\ issued = <<>> /\ deleted = {}

\* === Shops ===
getAllShops ==
    /\ call' = Call("getAll", "Shop", "", EmptyObject)
    /\ ret' = RetList(MapValues(shops))
    /\ UNCHANGED <<shops, drivers, routes, targets, idCounter, issued, deleted>>
    /\ UNCHANGED notStoreVars

getShop(id) ==
    /\ call' = Call("get", "Shop", id, EmptyObject)
    /\ ret' = IF MapHas(shops, id) THEN RetRecord(MapGet(shops, id)) ELSE RetUndefined
    /\ UNCHANGED <<shops, drivers, routes, targets, idCounter, issued, deleted>>
    /\ UNCHANGED notStoreVars

createShop(data) ==
    /\ idCounter < MaxIds
    /\ LET id == genId(idCounter)
           shop == Spread(data, Prop("id", Str(id)))
       IN  /\ idCounter' = incIdCounter(idCounter)
           /\ shops' = MapSet(shops, id, shop)
           /\ call' = Call("create", "Shop", "", data)
           /\ ret' = RetRecord(shop)
           /\ issued' = Append(issued, shop["id"].s)
    /\ UNCHANGED <<drivers, routes, targets, deleted>>
    /\ UNCHANGED notStoreVars

\* updateShop without its `if (!shop) return undefined`.
updateShopUpsert(id, updates) ==
    /\ call' = Call("update", "Shop", id, updates)
    /\ LET shop == IF MapHas(shops, id) THEN MapGet(shops, id) ELSE EmptyObject
           updated == Spread(shop, updates)
       IN  /\ shops' = MapSet(shops, id, updated)
           /\ ret' = RetRecord(updated)
    /\ UNCHANGED <<drivers, routes, targets, idCounter, issued, deleted>>
    /\ UNCHANGED notStoreVars

updateShop(id, updates) ==
    /\ call' = Call("update", "Shop", id, updates)
    /\ IF ~MapHas(shops, id)
       THEN /\ ret' = RetUndefined
            /\ UNCHANGED shops
       ELSE LET updated == Spread(MapGet(shops, id), updates)
            IN  /\ shops' = MapSet(shops, id, updated)
                /\ ret' = RetRecord(updated)
    /\ UNCHANGED <<drivers, routes, targets, idCounter, issued, deleted>>
    /\ UNCHANGED notStoreVars

\* deleteShop answering true whether or not the id was there.
deleteShopAlwaysTrue(id) ==
    /\ call' = Call("delete", "Shop", id, EmptyObject)
    /\ shops' = MapDelete(shops, id)
    /\ ret' = RetBool(TRUE)
    /\ deleted' = deleted \cup {id}
    /\ UNCHANGED <<drivers, routes, targets, idCounter, issued>>
    /\ UNCHANGED notStoreVars

\* A delete that also removed the routes that visit the shop.
deleteShopCascade(id) ==
    /\ call' = Call("delete", "Shop", id, EmptyObject)
    /\ shops' = MapDelete(shops, id)
    /\ routes' = SelectSeq(routes, LAMBDA e :
                    \A i \in 1..Len(e.value.shopIds.a) : e.value.shopIds.a[i] # id)
    /\ ret' = RetBool(MapHas(shops, id))
    /\ deleted' = IF MapHas(shops, id) THEN deleted \cup {id} ELSE deleted
    /\ UNCHANGED <<drivers, targets, idCounter, issued>>
    /\ UNCHANGED notStoreVars

deleteShop(id) ==
    /\ call' = Call("delete", "Shop", id, EmptyObject)
    /\ shops' = MapDelete(shops, id)
    /\ ret' = RetBool(MapHas(shops, id))
    /\ deleted' = IF MapHas(shops, id) THEN deleted \cup {id} ELSE deleted
    /\ UNCHANGED <<drivers, routes, targets, idCounter, issued>>
    /\ UNCHANGED notStoreVars

\* === Drivers ===
getAllDrivers ==
    /\ call' = Call("getAll", "Driver", "", EmptyObject)
    /\ ret' = RetList(MapValues(drivers))
    /\ UNCHANGED <<shops, drivers, routes, targets, idCounter, issued, deleted>>
    /\ UNCHANGED notStoreVars

getDriver(id) ==
    /\ call' = Call("get", "Driver", id, EmptyObject)
    /\ ret' = IF MapHas(drivers, id) THEN RetRecord(MapGet(drivers, id)) ELSE RetUndefined
    /\ UNCHANGED <<shops, drivers, routes, targets, idCounter, issued, deleted>>
    /\ UNCHANGED notStoreVars

\* createDriver building `{ id, ...data }`, so that the caller's id wins.
createDriverIdFirst(data) ==
    /\ idCounter < MaxIds
    /\ LET id == genId(idCounter)
           driver == Spread(Prop("id", Str(id)), data)
       IN  /\ idCounter' = incIdCounter(idCounter)
           /\ drivers' = MapSet(drivers, id, driver)
           /\ call' = Call("create", "Driver", "", data)
           /\ ret' = RetRecord(driver)
           /\ issued' = Append(issued, driver["id"].s)
    /\ UNCHANGED <<shops, routes, targets, deleted>>
    /\ UNCHANGED notStoreVars

createDriver(data) ==
    /\ idCounter < MaxIds
    /\ LET id == genId(idCounter)
           driver == Spread(data, Prop("id", Str(id)))
       IN  /\ idCounter' = incIdCounter(idCounter)
           /\ drivers' = MapSet(drivers, id, driver)
           /\ call' = Call("create", "Driver", "", data)
           /\ ret' = RetRecord(driver)
           /\ issued' = Append(issued, driver["id"].s)
    /\ UNCHANGED <<shops, routes, targets, deleted>>
    /\ UNCHANGED notStoreVars

updateDriver(id, updates) ==
    /\ call' = Call("update", "Driver", id, updates)
    /\ IF ~MapHas(drivers, id)
       THEN /\ ret' = RetUndefined
            /\ UNCHANGED drivers
       ELSE LET updated == Spread(MapGet(drivers, id), updates)
            IN  /\ drivers' = MapSet(drivers, id, updated)
                /\ ret' = RetRecord(updated)
    /\ UNCHANGED <<shops, routes, targets, idCounter, issued, deleted>>
    /\ UNCHANGED notStoreVars

deleteDriver(id) ==
    /\ call' = Call("delete", "Driver", id, EmptyObject)
    /\ drivers' = MapDelete(drivers, id)
    /\ ret' = RetBool(MapHas(drivers, id))
    /\ deleted' = IF MapHas(drivers, id) THEN deleted \cup {id} ELSE deleted
    /\ UNCHANGED <<shops, routes, targets, idCounter, issued>>
    /\ UNCHANGED notStoreVars

\* === Routes ===
getAllRoutes ==
    /\ call' = Call("getAll", "Route", "", EmptyObject)
    /\ ret' = RetList(MapValues(routes))
    /\ UNCHANGED <<shops, drivers, routes, targets, idCounter, issued, deleted>>
    /\ UNCHANGED notStoreVars

getRoute(id) ==
    /\ call' = Call("get", "Route", id, EmptyObject)
    /\ ret' = IF MapHas(routes, id) THEN RetRecord(MapGet(routes, id)) ELSE RetUndefined
    /\ UNCHANGED <<shops, drivers, routes, targets, idCounter, issued, deleted>>
    /\ UNCHANGED notStoreVars

createRoute(data) ==
    /\ idCounter < MaxIds
    /\ LET id == genId(idCounter)
           route == Spread(data, Prop("id", Str(id)))
       IN  /\ idCounter' = incIdCounter(idCounter)
           /\ routes' = MapSet(routes, id, route)
           /\ call' = Call("create", "Route", "", data)
           /\ ret' = RetRecord(route)
           /\ issued' = Append(issued, route["id"].s)
    /\ UNCHANGED <<shops, drivers, targets, deleted>>
    /\ UNCHANGED notStoreVars

updateRoute(id, updates) ==
    /\ call' = Call("update", "Route", id, updates)
    /\ IF ~MapHas(routes, id)
       THEN /\ ret' = RetUndefined
            /\ UNCHANGED routes
       ELSE LET updated == Spread(MapGet(routes, id), updates)
            IN  /\ routes' = MapSet(routes, id, updated)
                /\ ret' = RetRecord(updated)
    /\ UNCHANGED <<shops, drivers, targets, idCounter, issued, deleted>>
    /\ UNCHANGED notStoreVars

deleteRoute(id) ==
    /\ call' = Call("delete", "Route", id, EmptyObject)
    /\ routes' = MapDelete(routes, id)
    /\ ret' = RetBool(MapHas(routes, id))
    /\ deleted' = IF MapHas(routes, id) THEN deleted \cup {id} ELSE deleted
    /\ UNCHANGED <<shops, drivers, targets, idCounter, issued>>
    /\ UNCHANGED notStoreVars

\* === Targets ===
getAllTargets ==
    /\ call' = Call("getAll", "Target", "", EmptyObject)
    /\ ret' = RetList(MapValues(targets))
    /\ UNCHANGED <<shops, drivers, routes, targets, idCounter, issued, deleted>>
    /\ UNCHANGED notStoreVars

getTarget(id) ==
    /\ call' = Call("get", "Target", id, EmptyObject)
    /\ ret' = IF MapHas(targets, id) THEN RetRecord(MapGet(targets, id)) ELSE RetUndefined
    /\ UNCHANGED <<shops, drivers, routes, targets, idCounter, issued, deleted>>
    /\ UNCHANGED notStoreVars

createTarget(data) ==
    /\ idCounter < MaxIds
    /\ LET id == genId(idCounter)
           target == Spread(data, Prop("id", Str(id)))
       IN  /\ idCounter' = incIdCounter(idCounter)
           /\ targets' = MapSet(targets, id, target)
           /\ call' = Call("create", "Target", "", data)
           /\ ret' = RetRecord(target)
           /\ issued' = Append(issued, target["id"].s)
    /\ UNCHANGED <<shops, drivers, routes, deleted>>
    /\ UNCHANGED notStoreVars

updateTarget(id, updates) ==
    /\ call' = Call("update", "Target", id, updates)
    /\ IF ~MapHas(targets, id)
       THEN /\ ret' = RetUndefined
            /\ UNCHANGED targets
       ELSE LET updated == Spread(MapGet(targets, id), updates)
            IN  /\ targets' = MapSet(targets, id, updated)
                /\ ret' = RetRecord(updated)
    /\ UNCHANGED <<shops, drivers, routes, idCounter, issued, deleted>>
    /\ UNCHANGED notStoreVars

deleteTarget(id) ==
    /\ call' = Call("delete", "Target", id, EmptyObject)
    /\ targets' = MapDelete(targets, id)
    /\ ret' = RetBool(MapHas(targets, id))
    /\ deleted' = IF MapHas(targets, id) THEN deleted \cup {id} ELSE deleted
    /\ UNCHANGED <<shops, drivers, routes, idCounter, issued>>
    /\ UNCHANGED notStoreVars

StoreNext ==
    \/ getAllShops
    \/ \E id \in LookupIds : getShop(id)
    \/ \E data \in ShopData : createShop(data)
    \/ \E id \in LookupIds, updates \in ShopUpdates : updateShop(id, updates)
    \/ \E id \in LookupIds : deleteShop(id)
    \/ getAllDrivers
    \/ \E id \in LookupIds : getDriver(id)
    \/ \E data \in DriverData : createDriver(data)
    \/ \E id \in LookupIds, updates \in DriverUpdates : updateDriver(id, updates)
    \/ \E id \in LookupIds : deleteDriver(id)
    \/ getAllRoutes
    \/ \E id \in LookupIds : getRoute(id)
    \/ \E data \in RouteData : createRoute(data)
    \/ \E id \in LookupIds, updates \in RouteUpdates : updateRoute(id, updates)
    \/ \E id \in LookupIds : deleteRoute(id)
    \/ getAllTargets
    \/ \E id \in LookupIds : getTarget(id)
    \/ \E data \in TargetData : createTarget(data)
    \/ \E id \in LookupIds, updates \in TargetUpdates : updateTarget(id, updates)
    \/ \E id \in LookupIds : deleteTarget(id)

-----------------------------------------------------------------------------
(* createTestApp: the Express application of the API integration tests *)

\* JavaScript truthiness of a value that is present.
Truthy(v) ==
    CASE v.t = "string" -> v.s # ""
      [] v.t = "number" -> v.n # 0
      [] v.t = "boolean" -> v.n # 0
      [] v.t = "null" -> FALSE
      [] OTHER -> TRUE

\* `!body.f`: the property is absent (undefined) or falsy.
Not(body, f) == f \notin DOMAIN body \/ ~Truthy(body[f])

\* `body.f === null`, which an absent property does not satisfy.
EqNullStrict(body, f) == f \in DOMAIN body /\ body[f].t = "null"

\* `body.f == null`: the property is absent (undefined) or null.
EqNull(body, f) == f \notin DOMAIN body \/ body[f].t = "null"

\* const genId = () => `test-${++idCounter}`, on a counter that is c.
appGenId(c) == "test-" \o ToString(c + 1)

AppLookupIds == {appGenId(c) : c \in 0..(MaxIds - 1)} \cup {"non-existent"}

Request(method, path, id, body) ==
    [method |-> method, path |-> path, id |-> id, body |-> body]

NoRequest == Request("", "", "", EmptyObject)

\* A response: its status and its JSON body (an object, an array or nothing).
Response(status, t, rec, list) == [status |-> status, t |-> t, rec |-> rec, list |-> list]

NoResponse == Response(0, "none", EmptyObject, <<>>)

Json(status, rec) == Response(status, "object", rec, <<>>)

JsonArray(status, list) == Response(status, "array", EmptyObject, list)

Send(status) == Response(status, "none", EmptyObject, <<>>)

Error(status, message) == Json(status, Prop("error", Str(message)))

\* An object without the property f.
Without(obj, f) == [g \in (DOMAIN obj) \ {f} |-> obj[g]]

ShopRequired == {"name", "latitude", "longitude"}
DriverRequired == {"name", "phone", "vehicleType"}
RouteRequired == {"name", "date"}
TargetRequired ==
    {"driverId", "period", "targetShops", "targetDeliveries", "startDate", "endDate"}

MinimalShop == [name |-> Str("Findable Shop"), latitude |-> Lat, longitude |-> Lng]

ShopBodies ==
    {MinimalShop,
     [id |-> Str("test-2"), name |-> Str("Test Shop"), latitude |-> Num(0, 1),
      longitude |-> Lng, category |-> Str("wholesale"), status |-> Str("pending")],
     [category |-> Str("retail")],
     [name |-> Str(""), latitude |-> Lat, longitude |-> Lng],
     [name |-> Str("Null Coords"), latitude |-> Null, longitude |-> Lng],
     [name |-> Str("String Coords"), latitude |-> Str("36.86"), longitude |-> Lng]}
    \cup {Without(MinimalShop, f) : f \in ShopRequired}

ShopPatches == {
    [name |-> Str("Updated Name")],
    [name |-> Str(""), latitude |-> Str("not-a-number")] }

MinimalDriver ==
    [name |-> Str("Test Driver"), phone |-> Str("+254712345678"),
     vehicleType |-> Str("motorcycle")]

DriverBodies ==
    {MinimalDriver,
     [name |-> Str("Del Driver"), phone |-> Str("+254700000000"),
      vehicleType |-> Str("van"), status |-> Str("off_duty")]}
    \cup {Without(MinimalDriver, f) : f \in DriverRequired}

MinimalRoute == [name |-> Str("R1"), date |-> Str("2026-02-18")]

RouteBodies ==
    {MinimalRoute,
     [name |-> Str("Morning Delivery"), date |-> Str("2026-02-18"),
      shopIds |-> Arr(<<"s1", "s2">>), status |-> Str("in_progress")]}
    \cup {Without(MinimalRoute, f) : f \in RouteRequired}

MinimalTarget ==
    [driverId |-> Str("d1"), period |-> Str("weekly"),
     targetShops |-> Num(30, 1), targetDeliveries |-> Num(50, 1),
     startDate |-> Str("2026-02-17"), endDate |-> Str("2026-02-23")]

TargetBodies ==
    {MinimalTarget,
     [driverId |-> Str("d1"), period |-> Str("daily"),
      targetShops |-> Num(0, 1), targetDeliveries |-> Num(21, 2),
      completedShops |-> Num(3, 1), completedDeliveries |-> Num(8, 1),
      startDate |-> Str("2026-02-18"), endDate |-> Str("2026-02-18")],
     [driverId |-> Str("d1")]}
    \cup {Without(MinimalTarget, f) : f \in TargetRequired}

AppInit ==
    /\ appShops = <<>> /\ appDrivers = <<>> /\ appRoutes = <<>> /\ appTargets = <<>>
    /\ appIdCounter = 0
    /\ req = NoRequest /\ res = NoResponse

\* ---- Shops ----
GetShops ==
    /\ req' = Request("GET", "/api/shops", "", EmptyObject)
    /\ res' = JsonArray(200, MapValues(appShops))
    /\ UNCHANGED <<appShops, appDrivers, appRoutes, appTargets, appIdCounter>>
    /\ UNCHANGED notAppVars

GetShopById(id) ==
    /\ req' = Request("GET", "/api/shops/:id", id, EmptyObject)
    /\ res' = IF ~MapHas(appShops, id)
              THEN Error(404, "Shop not found")
              ELSE Json(200, MapGet(appShops, id))
    /\ UNCHANGED <<appShops, appDrivers, appRoutes, appTargets, appIdCounter>>
    /\ UNCHANGED notAppVars

PostShops(body) ==
    /\ req' = Request("POST", "/api/shops", "", body)
    /\ IF Not(body, "name") \/ EqNull(body, "latitude") \/ EqNull(body, "longitude")
       THEN /\ res' = Error(400, "Invalid shop data")
            /\ UNCHANGED <<appShops, appIdCounter>>
       ELSE /\ appIdCounter < MaxIds
            /\ LET id == appGenId(appIdCounter)
                   shop == Spread(Prop("id", Str(id)), body)
               IN  /\ appIdCounter' = appIdCounter + 1
                   /\ appShops' = MapSet(appShops, id, shop)
                   /\ res' = Json(201, shop)
    /\ UNCHANGED <<appDrivers, appRoutes, appTargets>>
    /\ UNCHANGED notAppVars

\* PATCH /api/shops/:id that applied the create-time check to the patch.
PatchShopByIdValidated(id, body) ==
    /\ req' = Request("PATCH", "/api/shops/:id", id, body)
    /\ IF ~MapHas(appShops, id)
       THEN /\ res' = Error(404, "Shop not found")
            /\ UNCHANGED appShops
       ELSE IF "name" \in DOMAIN body /\ ~Truthy(body.name)
       THEN /\ res' = Error(400, "Invalid shop data")
            /\ UNCHANGED appShops
       ELSE LET updated == Spread(MapGet(appShops, id), body)
            IN  /\ appShops' = MapSet(appShops, id, updated)
                /\ res' = Json(200, updated)
    /\ UNCHANGED <<appDrivers, appRoutes, appTargets, appIdCounter>>
    /\ UNCHANGED notAppVars

PatchShopById(id, body) ==
    /\ req' = Request("PATCH", "/api/shops/:id", id, body)
    /\ IF ~MapHas(appShops, id)
       THEN /\ res' = Error(404, "Shop not found")
            /\ UNCHANGED appShops
       ELSE LET updated == Spread(MapGet(appShops, id), body)
            IN  /\ appShops' = MapSet(appShops, id, updated)
                /\ res' = Json(200, updated)
    /\ UNCHANGED <<appDrivers, appRoutes, appTargets, appIdCounter>>
    /\ UNCHANGED notAppVars

\* DELETE /api/shops/:id that answered 204 whether or not the id was stored.
DeleteShopByIdIdempotent(id) ==
    /\ req' = Request("DELETE", "/api/shops/:id", id, EmptyObject)
    /\ appShops' = MapDelete(appShops, id)
    /\ res' = Send(204)
    /\ UNCHANGED <<appDrivers, appRoutes, appTargets, appIdCounter>>
    /\ UNCHANGED notAppVars

DeleteShopById(id) ==
    /\ req' = Request("DELETE", "/api/shops/:id", id, EmptyObject)
    /\ IF ~MapHas(appShops, id)
       THEN /\ res' = Error(404, "Shop not found")
            /\ UNCHANGED appShops
       ELSE /\ appShops' = MapDelete(appShops, id)
            /\ res' = Send(204)
    /\ UNCHANGED <<appDrivers, appRoutes, appTargets, appIdCounter>>
    /\ UNCHANGED notAppVars

\* ---- Drivers ----
GetDrivers ==
    /\ req' = Request("GET", "/api/drivers", "", EmptyObject)
    /\ res' = JsonArray(200, MapValues(appDrivers))
    /\ UNCHANGED <<appShops, appDrivers, appRoutes, appTargets, appIdCounter>>
    /\ UNCHANGED notAppVars

\* POST /api/drivers that generated the id before it checked the body.
PostDriversIdFirst(body) ==
    /\ req' = Request("POST", "/api/drivers", "", body)
    /\ appIdCounter < MaxIds
    /\ appIdCounter' = appIdCounter + 1
    /\ IF Not(body, "name") \/ Not(body, "phone") \/ Not(body, "vehicleType")
       THEN /\ res' = Error(400, "Invalid driver data")
            /\ UNCHANGED appDrivers
       ELSE LET id == appGenId(appIdCounter)
                driver == Spread([id |-> Str(id), status |-> Str("available")], body)
            IN  /\ appDrivers' = MapSet(appDrivers, id, driver)
                /\ res' = Json(201, driver)
    /\ UNCHANGED <<appShops, appRoutes, appTargets>>
    /\ UNCHANGED notAppVars

PostDrivers(body) ==
    /\ req' = Request("POST", "/api/drivers", "", body)
    /\ IF Not(body, "name") \/ Not(body, "phone") \/ Not(body, "vehicleType")
       THEN /\ res' = Error(400, "Invalid driver data")
            /\ UNCHANGED <<appDrivers, appIdCounter>>
       ELSE /\ appIdCounter < MaxIds
            /\ LET id == appGenId(appIdCounter)
                   driver == Spread([id |-> Str(id), status |-> Str("available")], body)
               IN  /\ appIdCounter' = appIdCounter + 1
                   /\ appDrivers' = MapSet(appDrivers, id, driver)
                   /\ res' = Json(201, driver)
    /\ UNCHANGED <<appShops, appRoutes, appTargets>>
    /\ UNCHANGED notAppVars

DeleteDriverById(id) ==
    /\ req' = Request("DELETE", "/api/drivers/:id", id, EmptyObject)
    /\ IF ~MapHas(appDrivers, id)
       THEN /\ res' = Error(404, "Driver not found")
            /\ UNCHANGED appDrivers
       ELSE /\ appDrivers' = MapDelete(appDrivers, id)
            /\ res' = Send(204)
    /\ UNCHANGED <<appShops, appRoutes, appTargets, appIdCounter>>
    /\ UNCHANGED notAppVars

\* ---- Routes ----
GetRoutes ==
    /\ req' = Request("GET", "/api/routes", "", EmptyObject)
    /\ res' = JsonArray(200, MapValues(appRoutes))
    /\ UNCHANGED <<appShops, appDrivers, appRoutes, appTargets, appIdCounter>>
    /\ UNCHANGED notAppVars

\* POST /api/routes that stored the body without the defaults.
PostRoutesNoDefaults(body) ==
    /\ req' = Request("POST", "/api/routes", "", body)
    /\ IF Not(body, "name") \/ Not(body, "date")
       THEN /\ res' = Error(400, "Invalid route data")
            /\ UNCHANGED <<appRoutes, appIdCounter>>
       ELSE /\ appIdCounter < MaxIds
            /\ LET id == appGenId(appIdCounter)
                   route == Spread(Prop("id", Str(id)), body)
               IN  /\ appIdCounter' = appIdCounter + 1
                   /\ appRoutes' = MapSet(appRoutes, id, route)
                   /\ res' = Json(201, route)
    /\ UNCHANGED <<appShops, appDrivers, appTargets>>
    /\ UNCHANGED notAppVars

PostRoutes(body) ==
    /\ req' = Request("POST", "/api/routes", "", body)
    /\ IF Not(body, "name") \/ Not(body, "date")
       THEN /\ res' = Error(400, "Invalid route data")
            /\ UNCHANGED <<appRoutes, appIdCounter>>
       ELSE /\ appIdCounter < MaxIds
            /\ LET id == appGenId(appIdCounter)
                   route == Spread([id |-> Str(id), status |-> Str("planned"),
                                    shopIds |-> Arr(<<>>)], body)
               IN  /\ appIdCounter' = appIdCounter + 1
                   /\ appRoutes' = MapSet(appRoutes, id, route)
                   /\ res' = Json(201, route)
    /\ UNCHANGED <<appShops, appDrivers, appTargets>>
    /\ UNCHANGED notAppVars

\* ---- Targets ----
GetTargets ==
    /\ req' = Request("GET", "/api/targets", "", EmptyObject)
    /\ res' = JsonArray(200, MapValues(appTargets))
    /\ UNCHANGED <<appShops, appDrivers, appRoutes, appTargets, appIdCounter>>
    /\ UNCHANGED notAppVars

PostTargets(body) ==
    /\ req' = Request("POST", "/api/targets", "", body)
    /\ IF \/ Not(body, "driverId") \/ Not(body, "period")
          \/ EqNull(body, "targetShops") \/ EqNull(body, "targetDeliveries")
          \/ Not(body, "startDate") \/ Not(body, "endDate")
       THEN /\ res' = Error(400, "Invalid target data")
            /\ UNCHANGED <<appTargets, appIdCounter>>
       ELSE /\ appIdCounter < MaxIds
            /\ LET id == appGenId(appIdCounter)
                   target == Spread([id |-> Str(id), completedShops |-> Num(0, 1),
                                     completedDeliveries |-> Num(0, 1)], body)
               IN  /\ appIdCounter' = appIdCounter + 1
                   /\ appTargets' = MapSet(appTargets, id, target)
                   /\ res' = Json(201, target)
    /\ UNCHANGED <<appShops, appDrivers, appRoutes>>
    /\ UNCHANGED notAppVars

AppNext ==
    \/ GetShops
    \/ \E id \in AppLookupIds : GetShopById(id)
    \/ \E body \in ShopBodies : PostShops(body)
    \/ \E id \in AppLookupIds, body \in ShopPatches : PatchShopById(id, body)
    \/ \E id \in AppLookupIds : DeleteShopById(id)
    \/ GetDrivers
    \/ \E body \in DriverBodies : PostDrivers(body)
    \/ \E id \in AppLookupIds : DeleteDriverById(id)
    \/ GetRoutes
    \/ \E body \in RouteBodies : PostRoutes(body)
    \/ GetTargets
    \/ \E body \in TargetBodies : PostTargets(body)

-----------------------------------------------------------------------------
(* The shop endpoints behind express.json() and the error handler *)

\* The errors express.json() raises for a body it cannot parse.
BodyParserErrors ==
    {[message |-> "Unexpected end of JSON input"],
     [message |-> "Unexpected token n in JSON at position 0"]}

\* The error handler: res.status(500).json({ error: err.message || "Internal Server Error" })
errorHandler(err) ==
    Error(500, IF err.message # "" THEN err.message ELSE "Internal Server Error")

\* A POST /api/shops whose body is not JSON: express.json() passes its
\* error on, the route is skipped and the error handler answers.
PostShopsMalformed(err) ==
    /\ req' = Request("POST", "/api/shops", "", EmptyObject)
    /\ res' = errorHandler(err)
    /\ UNCHANGED <<appShops, appDrivers, appRoutes, appTargets, appIdCounter>>
    /\ UNCHANGED notAppVars

ShopApiNext ==
    \/ GetShops
    \/ \E id \in AppLookupIds : GetShopById(id)
    \/ \E body \in ShopBodies : PostShops(body)
    \/ \E err \in BodyParserErrors : PostShopsMalformed(err)
    \/ \E id \in AppLookupIds, body \in ShopPatches : PatchShopById(id, body)
    \/ \E id \in AppLookupIds : DeleteShopById(id)

-----------------------------------------------------------------------------
(* The route endpoints addressed by id, as the API contract states them *)

RoutePatches == {Prop("status", Str("in_progress"))}

\* GET /api/routes/:id
GetRouteById(id) ==
    /\ req' = Request("GET", "/api/routes/:id", id, EmptyObject)
    /\ res' = IF ~MapHas(appRoutes, id)
              THEN Error(404, "Route not found")
              ELSE Json(200, MapGet(appRoutes, id))
    /\ UNCHANGED <<appShops, appDrivers, appRoutes, appTargets, appIdCounter>>
    /\ UNCHANGED notAppVars

\* PATCH /api/routes/:id
PatchRouteById(id, body) ==
    /\ req' = Request("PATCH", "/api/routes/:id", id, body)
    /\ IF ~MapHas(appRoutes, id)
       THEN /\ res' = Error(404, "Route not found")
            /\ UNCHANGED appRoutes
       ELSE LET updated == Spread(MapGet(appRoutes, id), body)
            IN  /\ appRoutes' = MapSet(appRoutes, id, updated)
                /\ res' = Json(200, updated)
    /\ UNCHANGED <<appShops, appDrivers, appTargets, appIdCounter>>
    /\ UNCHANGED notAppVars

\* DELETE /api/routes/:id
DeleteRouteById(id) ==
    /\ req' = Request("DELETE", "/api/routes/:id", id, EmptyObject)
    /\ IF ~MapHas(appRoutes, id)
       THEN /\ res' = Error(404, "Route not found")
            /\ UNCHANGED appRoutes
       ELSE /\ appRoutes' = MapDelete(appRoutes, id)
            /\ res' = Send(204)
    /\ UNCHANGED <<appShops, appDrivers, appTargets, appIdCounter>>
    /\ UNCHANGED notAppVars

RouteApiNext ==
    \/ GetRoutes
    \/ \E body \in RouteBodies : PostRoutes(body)
    \/ \E id \in AppLookupIds : GetRouteById(id)
    \/ \E id \in AppLookupIds, body \in RoutePatches : PatchRouteById(id, body)
    \/ \E id \in AppLookupIds : DeleteRouteById(id)

-----------------------------------------------------------------------------
(* The insert schemas (zod) *)

\* z.string().min(1)
ZStringMin1 ==
    [type |-> "string", min1 |-> TRUE, int |-> FALSE, optional |-> FALSE,
     nullable |-> FALSE, hasDefault |-> FALSE, default |-> Null]

\* z.string().optional().nullable()
ZStringOptionalNullable ==
    [type |-> "string", min1 |-> FALSE, int |-> FALSE, optional |-> TRUE,
     nullable |-> TRUE, hasDefault |-> FALSE, default |-> Null]

\* z.string().default(d)
ZStringDefault(d) ==
    [type |-> "string", min1 |-> FALSE, int |-> FALSE, optional |-> FALSE,
     nullable |-> FALSE, hasDefault |-> TRUE, default |-> Str(d)]

\* z.number()
ZNumber ==
    [type |-> "number", min1 |-> FALSE, int |-> FALSE, optional |-> FALSE,
     nullable |-> FALSE, hasDefault |-> FALSE, default |-> Null]

\* z.number().optional().nullable()
ZNumberOptionalNullable ==
    [type |-> "number", min1 |-> FALSE, int |-> FALSE, optional |-> TRUE,
     nullable |-> TRUE, hasDefault |-> FALSE, default |-> Null]

\* z.number().int()
ZNumberInt ==
    [type |-> "number", min1 |-> FALSE, int |-> TRUE, optional |-> FALSE,
     nullable |-> FALSE, hasDefault |-> FALSE, default |-> Null]

\* z.number().int().default(0)
ZNumberIntDefault0 ==
    [type |-> "number", min1 |-> FALSE, int |-> TRUE, optional |-> FALSE,
     nullable |-> FALSE, hasDefault |-> TRUE, default |-> Num(0, 1)]

\* z.array(z.string()).default([])
ZStringArrayDefaultEmpty ==
    [type |-> "array", min1 |-> FALSE, int |-> FALSE, optional |-> FALSE,
     nullable |-> FALSE, hasDefault |-> TRUE, default |-> Arr(<<>>)]

insertShopSchema ==
    [name |-> ZStringMin1,
     ownerName |-> ZStringOptionalNullable,
     phone |-> ZStringOptionalNullable,
     address |-> ZStringOptionalNullable,
     latitude |-> ZNumber,
     longitude |-> ZNumber,
     category |-> ZStringDefault("retail"),
     status |-> ZStringDefault("active"),
     addedBy |-> ZStringOptionalNullable,
     notes |-> ZStringOptionalNullable]

insertDriverSchema ==
    [name |-> ZStringMin1,
     phone |-> ZStringMin1,
     vehicleType |-> ZStringMin1,
     vehiclePlate |-> ZStringOptionalNullable,
     status |-> ZStringDefault("available"),
     currentLatitude |-> ZNumberOptionalNullable,
     currentLongitude |-> ZNumberOptionalNullable]

insertRouteSchema ==
    [name |-> ZStringMin1,
     driverId |-> ZStringOptionalNullable,
     shopIds |-> ZStringArrayDefaultEmpty,
     status |-> ZStringDefault("planned"),
     estimatedDistance |-> ZNumberOptionalNullable,
     estimatedTime |-> ZNumberOptionalNullable,
     date |-> ZStringMin1]

insertTargetSchema ==
    [driverId |-> ZStringMin1,
     period |-> ZStringMin1,
     targetShops |-> ZNumberInt,
     targetDeliveries |-> ZNumberInt,
     completedShops |-> ZNumberIntDefault0,
     completedDeliveries |-> ZNumberIntDefault0,
     startDate |-> ZStringMin1,
     endDate |-> ZStringMin1]

\* The check of one value against a field's type and its refinements.
ZValueOkNoInt(z, v) ==
    /\ v.t = z.type
    /\ (z.min1 => v.s # "")

ZValueOk(z, v) ==
    /\ v.t = z.type
    /\ (z.min1 => v.s # "")
    /\ (z.int => v.n % v.d = 0)

\* The check of property f of the input: an absent property passes only
\* where the field is optional or has a default, null only where nullable.
ZFieldOk(z, input, f) ==
    IF f \notin DOMAIN input
    THEN z.optional \/ z.hasDefault
    ELSE IF input[f].t = "null"
         THEN z.nullable
         ELSE ZValueOk(z, input[f])

\* A parse that stopped at the first field that raises an issue.
ZIssuesFirstOnly(schema, input) ==
    LET all == {f \in DOMAIN schema : ~ZFieldOk(schema[f], input, f)}
    IN  IF all = {} THEN {} ELSE {CHOOSE f \in all : TRUE}

\* The fields of the input that raise an issue; zod checks every field of
\* the object and collects the issues of all of them.
ZIssues(schema, input) == {f \in DOMAIN schema : ~ZFieldOk(schema[f], input, f)}

\* The parsed object: the schema's fields that are present or defaulted;
\* keys the schema does not name are stripped.
ZData(schema, input) ==
    [f \in {g \in DOMAIN schema : g \in DOMAIN input \/ schema[g].hasDefault} |->
        IF f \in DOMAIN input THEN input[f] ELSE schema[f].default]

\* schema.safeParse(input), for an input that is an object.
safeParse(schema, input) ==
    IF ZIssues(schema, input) = {}
    THEN [success |-> TRUE, data |-> ZData(schema, input), issues |-> {}]
    ELSE [success |-> FALSE, data |-> EmptyObject, issues |-> ZIssues(schema, input)]

\* A property left out of an object literal.
Absent == [t |-> "undefined", s |-> "", n |-> 0, d |-> 1, a |-> <<>>]

\* The object with the properties of c that are not left out.
ObjectOf(c) == [f \in {g \in DOMAIN c : c[g] # Absent} |-> c[f]]

ShopInputs ==
    {ObjectOf(c) : c \in
        [name : {Absent, Str("Minimal Shop"), Str("")},
         latitude : {Absent, Lat, Str("36.86"), Str("not-a-number"), Null},
         longitude : {Lng},
         category : {Absent, Str("wholesale")},
         ownerName : {Absent, Null, Num(12, 1)},
         color : {Absent, Num(3, 1)}]}

DriverInputs ==
    {ObjectOf(c) : c \in
        [name : {Absent, Str("David Omondi")},
         phone : {Absent, Str("+254778901234"), Str("")},
         vehicleType : {Absent, Str("motorcycle")},
         status : {Absent, Str("retired"), Null},
         currentLatitude : {Absent, Str("-1.259")}]}

RouteInputs ==
    {ObjectOf(c) : c \in
        [name : {Absent, Str("Morning Route")},
         date : {Absent, Str("2026-02-18")},
         shopIds : {Absent, Arr(<<"s1", "s2">>), Str("s1")},
         status : {Absent, Str("cancelled")},
         driverId : {Absent, Null}]}

TargetInputs ==
    {ObjectOf(c) : c \in
        [driverId : {Absent, Str("d1")},
         period : {Str("weekly")},
         targetShops : {Absent, Num(30, 1), Num(21, 2), Str("30")},
         targetDeliveries : {Num(50, 1), Num(41, 2)},
         completedShops : {Absent, Num(5, 2)},
         completedDeliveries : {Absent, Num(3, 1)},
         startDate : {Str("2026-02-17")},
         endDate : {Absent, Str("2026-02-23")}]}

Parsed(kind, schema, input) ==
    [kind |-> kind, input |-> input, result |-> safeParse(schema, input)]

SchemaInit ==
    parsed = [kind |-> "none", input |-> EmptyObject,
              result |-> [success |-> FALSE, data |-> EmptyObject, issues |-> {}]]

ParseShop(input) ==
    /\ parsed' = Parsed("Shop", insertShopSchema, input)
    /\ UNCHANGED notSchemaVars

ParseDriver(input) ==
    /\ parsed' = Parsed("Driver", insertDriverSchema, input)
    /\ UNCHANGED notSchemaVars

ParseRoute(input) ==
    /\ parsed' = Parsed("Route", insertRouteSchema, input)
    /\ UNCHANGED notSchemaVars

ParseTarget(input) ==
    /\ parsed' = Parsed("Target", insertTargetSchema, input)
    /\ UNCHANGED notSchemaVars

SchemaNext ==
    \/ \E input \in ShopInputs : ParseShop(input)
    \/ \E input \in DriverInputs : ParseDriver(input)
    \/ \E input \in RouteInputs : ParseRoute(input)
    \/ \E input \in TargetInputs : ParseTarget(input)

UiInit ==
    /\ selectedRoute = "" /\ mutation = [status |-> "idle", data |-> <<>>, error |-> <<>>]
    /\ inFlight = <<>>
    /\ sent = 0 /\ toasts = <<>> /\ invalidations = 0

\* The routes the select control offers (the ids of the fetched routes).
RouteOptions == {"route-1", "route-2"}

\* The results the optimization collaborator returns.
OptimizationResults == {
    [optimizedOrder |-> <<"s1", "s2">>, originalDistance |-> 10, optimizedDistance |-> 10,
     timeSaved |-> 0, fuelSaved |-> 0, suggestions |-> <<>>],
    [optimizedOrder |-> <<"s2", "s1">>, originalDistance |-> 12, optimizedDistance |-> 9,
     timeSaved |-> 15, fuelSaved |-> 2, suggestions |-> <<"Visit s2 first">>] }

\* The ways a request fails: a non-success response, or no response at all.
FailureCauses == {"500: Optimization service unavailable", "Failed to fetch"}

\* The state useMutation exposes: its status, and the data or the error of the
\* last settled request (<<>> while there is none).
Mutation(status, data, error) == [status |-> status, data |-> data, error |-> error]

isPending == mutation.status = "pending"

isError == mutation.status = "error"

Toast(title, description, variant) ==
    [title |-> title, description |-> description, variant |-> variant]

\* onSuccess reports the savings of the result.
SuccessToast(data) ==
    Toast("Route Optimized",
          "Saved " \o ToString(data.timeSaved) \o " minutes and "
              \o ToString(data.fuelSaved) \o "L of fuel",
          "default")

\* onError that put the cause of the failure into the notice.
FailureToastWithCause(cause) == Toast("Optimization Failed", cause, "destructive")

\* onError reports the failure, whatever its cause.
FailureToast(cause) == Toast("Optimization Failed", "", "destructive")

\* The line shown under the controls while the last request has failed.
Banner == IF isError THEN "Error optimizing route. Please try again." ELSE ""

\* A sequence without its i-th element.
RemoveAt(seq, i) == SubSeq(seq, 1, i - 1) \o SubSeq(seq, i + 1, Len(seq))

\* The select control: onValueChange={setSelectedRoute}.
SelectRoute(id) ==
    /\ selectedRoute' = id
    /\ UNCHANGED <<mutation, inFlight, sent, toasts, invalidations>>
    /\ UNCHANGED notUiVars

\* A button that stayed enabled while a request was pending.
ClickOptimizeWhilePending ==
    /\ selectedRoute # ""
    /\ sent < MaxRequests
    /\ mutation' = Mutation("pending", <<>>, <<>>)
    /\ inFlight' = Append(inFlight, selectedRoute)
    /\ sent' = sent + 1
    /\ UNCHANGED <<selectedRoute, toasts, invalidations>>
    /\ UNCHANGED notUiVars

\* The button: disabled without a selection or while a request is pending;
\* a click issues a request for the selected route.
ClickOptimize ==
    /\ ~(selectedRoute = "" \/ isPending)
    /\ selectedRoute # ""
    /\ sent < MaxRequests
    /\ mutation' = Mutation("pending", <<>>, <<>>)
    /\ inFlight' = Append(inFlight, selectedRoute)
    /\ sent' = sent + 1
    /\ UNCHANGED <<selectedRoute, toasts, invalidations>>
    /\ UNCHANGED notUiVars

\* A request in flight settles with a result: onSuccess runs.
RequestSucceeds(i, data) ==
    /\ i \in 1..Len(inFlight)
    /\ inFlight' = RemoveAt(inFlight, i)
    /\ mutation' = IF i = Len(inFlight) THEN Mutation("success", <<data>>, <<>>) ELSE mutation
    /\ toasts' = Append(toasts, SuccessToast(data))
    /\ invalidations' = invalidations + 1
    /\ UNCHANGED <<selectedRoute, sent>>
    /\ UNCHANGED notUiVars

\* onError that also invalidated the history query.
RequestFailsInvalidating(i, cause) ==
    /\ i \in 1..Len(inFlight)
    /\ inFlight' = RemoveAt(inFlight, i)
    /\ mutation' = IF i = Len(inFlight) THEN Mutation("error", <<>>, <<cause>>) ELSE mutation
    /\ toasts' = Append(toasts, FailureToast(cause))
    /\ invalidations' = invalidations + 1
    /\ UNCHANGED <<selectedRoute, sent>>
    /\ UNCHANGED notUiVars

\* A request in flight settles with a failure: onError runs.
RequestFails(i, cause) ==
    /\ i \in 1..Len(inFlight)
    /\ inFlight' = RemoveAt(inFlight, i)
    /\ mutation' = IF i = Len(inFlight) THEN Mutation("error", <<>>, <<cause>>) ELSE mutation
    /\ toasts' = Append(toasts, FailureToast(cause))
    /\ UNCHANGED <<selectedRoute, sent, invalidations>>
    /\ UNCHANGED notUiVars

UiNext ==
    \/ \E id \in RouteOptions : SelectRoute(id)
    \/ ClickOptimize
    \/ \E i \in 1..MaxRequests, data \in OptimizationResults : RequestSucceeds(i, data)
    \/ \E i \in 1..MaxRequests, cause \in FailureCauses : RequestFails(i, cause)

-----------------------------------------------------------------------------
(* createAuthTestApp: the Express application of the authentication tests *)

\* The simulated user store: a Map from email to user.
users ==
    <<[key |-> "admin@test.com",
       value |-> [id |-> Str("u1"), email |-> Str("admin@test.com"),
                  passwordHash |-> Str("$2a$10$hashedpassword"),
                  role |-> Str("admin")]]>>

\* currentSession: null, or the session of a user.
NoSession == <<>>
Session(userId) == <<[userId |-> userId]>>

\* String.prototype.toLowerCase, on the emails the requests carry.
toLowerCase(s) ==
    CASE s = "Admin@Test.com" -> "admin@test.com"
      [] OTHER -> s

\* String.prototype.length of the passwords the requests carry; a value
\* that is not a string has no length (undefined), written -1.
length(v) ==
    CASE v.t # "string" -> -1
      [] v.s = "short" -> 5
      [] v.s = "newpassword123" -> 14
      [] OTHER -> 8

\* `const { passwordHash, ...userData } = user` that kept the hash.
userDataWithHash(user) == user

\* `const { passwordHash, ...userData } = user`
userData(user) == Without(user, "passwordHash")

\* The answer of Express to an error no handler of the application catches.
Uncaught == Response(500, "html", EmptyObject, <<>>)

Exchange(request, response) == [req |-> request, res |-> response]

LoginBodies ==
    {EmptyObject,
     [email |-> Str("nonexistent@test.com"), password |-> Str("whatever")],
     [email |-> Str("admin@test.com"), password |-> Str("wrong-password")],
     [email |-> Str("admin@test.com"), password |-> Str("correct-password")],
     [email |-> Str("Admin@Test.com"), password |-> Str("correct-password")],
     [email |-> Num(123, 1), password |-> Str("correct-password")]}

ForgotPasswordBodies ==
    {[email |-> Str("admin@test.com")],
     [email |-> Str("fake@test.com")],
     EmptyObject,
     [email |-> Str("")]}

ResetPasswordBodies ==
    {EmptyObject,
     [token |-> Str("some-token"), password |-> Str("short")],
     [token |-> Str("invalid-token"), password |-> Str("newpassword123")]}

AuthInit ==
    /\ currentSession = NoSession
    /\ authLog = <<>>

\* The middleware isAuthenticated lets the request through.
authenticated == currentSession # NoSession

NotAuthenticated == Error(401, "Not authenticated")

\* POST /api/auth/login that dropped the session when the login failed.
LoginDroppingSession(body) ==
    /\ Len(authLog) < MaxExchanges
    /\ LET request == Request("POST", "/api/auth/login", "", body)
           found == /\ ~(Not(body, "email") \/ Not(body, "password"))
                    /\ body.email.t = "string"
                    /\ MapHas(users, toLowerCase(body.email.s))
                    /\ body.password = Str("correct-password")
       IN  IF found
           THEN LET user == MapGet(users, toLowerCase(body.email.s))
                IN  /\ currentSession' = Session(user.id.s)
                    /\ authLog' = Append(authLog, Exchange(request, Json(200, userData(user))))
           ELSE /\ currentSession' = NoSession
                /\ authLog' = Append(authLog,
                        Exchange(request, Error(401, "Invalid email or password")))
    /\ UNCHANGED notAuthVars

\* POST /api/auth/login
Login(body) ==
    /\ Len(authLog) < MaxExchanges
    /\ LET request == Request("POST", "/api/auth/login", "", body)
       IN  IF Not(body, "email") \/ Not(body, "password")
           THEN /\ authLog' = Append(authLog,
                        Exchange(request, Error(400, "Email and password are required")))
                /\ UNCHANGED currentSession
           ELSE IF body.email.t # "string"
           THEN \* email.toLowerCase is not a function
                /\ authLog' = Append(authLog, Exchange(request, Uncaught))
                /\ UNCHANGED currentSession
           ELSE IF ~MapHas(users, toLowerCase(body.email.s))
           THEN /\ authLog' = Append(authLog,
                        Exchange(request, Error(401, "Invalid email or password")))
                /\ UNCHANGED currentSession
           ELSE LET user == MapGet(users, toLowerCase(body.email.s))
                IN  IF body.password = Str("correct-password")
                    THEN /\ currentSession' = Session(user.id.s)
                         /\ authLog' = Append(authLog,
                                Exchange(request, Json(200, userData(user))))
                    ELSE /\ authLog' = Append(authLog,
                                Exchange(request, Error(401, "Invalid email or password")))
                         /\ UNCHANGED currentSession
    /\ UNCHANGED notAuthVars

\* POST /api/auth/logout that left the session in place.
LogoutKeepingSession ==
    /\ Len(authLog) < MaxExchanges
    /\ UNCHANGED currentSession
    /\ authLog' = Append(authLog,
            Exchange(Request("POST", "/api/auth/logout", "", EmptyObject),
                     Json(200, Prop("success", Bool(TRUE)))))
    /\ UNCHANGED notAuthVars

\* POST /api/auth/logout
Logout ==
    /\ Len(authLog) < MaxExchanges
    /\ currentSession' = NoSession
    /\ authLog' = Append(authLog,
            Exchange(Request("POST", "/api/auth/logout", "", EmptyObject),
                     Json(200, Prop("success", Bool(TRUE)))))
    /\ UNCHANGED notAuthVars

\* GET /api/auth/user
GetUser ==
    /\ Len(authLog) < MaxExchanges
    /\ LET request == Request("GET", "/api/auth/user", "", EmptyObject)
           found == {i \in 1..Len(users) : users[i].value.id.s = currentSession[1].userId}
       IN  authLog' = Append(authLog, Exchange(request,
                IF ~authenticated THEN NotAuthenticated
                ELSE IF found = {} THEN Error(401, "User not found")
                ELSE Json(200, userData(users[CHOOSE i \in found : \A j \in found : i <= j].value))))
    /\ UNCHANGED currentSession
    /\ UNCHANGED notAuthVars

\* GET /api/protected
GetProtected ==
    /\ Len(authLog) < MaxExchanges
    /\ authLog' = Append(authLog,
            Exchange(Request("GET", "/api/protected", "", EmptyObject),
                     IF ~authenticated THEN NotAuthenticated
                     ELSE Json(200, Prop("data", Str("secret")))))
    /\ UNCHANGED currentSession
    /\ UNCHANGED notAuthVars

\* POST /api/auth/forgot-password that answered 404 for an unknown email.
ForgotPasswordRevealing(body) ==
    /\ Len(authLog) < MaxExchanges
    /\ authLog' = Append(authLog,
            Exchange(Request("POST", "/api/auth/forgot-password", "", body),
                     IF Not(body, "email") THEN Error(400, "Email is required")
                     ELSE IF ~MapHas(users, body.email.s) THEN Error(404, "Unknown email")
                     ELSE Json(200, [success |-> Bool(TRUE),
                                     message |-> Str("If your email exists, you will receive a reset link")])))
    /\ UNCHANGED currentSession
    /\ UNCHANGED notAuthVars

\* POST /api/auth/forgot-password
ForgotPassword(body) ==
    /\ Len(authLog) < MaxExchanges
    /\ authLog' = Append(authLog,
            Exchange(Request("POST", "/api/auth/forgot-password", "", body),
                     IF Not(body, "email") THEN Error(400, "Email is required")
                     ELSE Json(200, [success |-> Bool(TRUE),
                                     message |-> Str("If your email exists, you will receive a reset link")])))
    /\ UNCHANGED currentSession
    /\ UNCHANGED notAuthVars

\* POST /api/auth/reset-password
ResetPassword(body) ==
    /\ Len(authLog) < MaxExchanges
    /\ authLog' = Append(authLog,
            Exchange(Request("POST", "/api/auth/reset-password", "", body),
                     IF Not(body, "token") \/ Not(body, "password")
                     THEN Error(400, "Token and password are required")
                     ELSE IF body.password.t = "string" /\ length(body.password) < 8
                     THEN Error(400, "Password must be at least 8 characters")
                     ELSE Error(400, "Invalid or expired token")))
    /\ UNCHANGED currentSession
    /\ UNCHANGED notAuthVars

AuthNext ==
    \/ \E body \in LoginBodies : Login(body)
    \/ Logout
    \/ GetUser
    \/ GetProtected
    \/ \E body \in ForgotPasswordBodies : ForgotPassword(body)
    \/ \E body \in ResetPasswordBodies : ResetPassword(body)

-----------------------------------------------------------------------------
(* createBackupTestApp: the Express application of the backup tests *)

\* A request with its Authorization header ("" when it has none).
BackupExchange(request, header, response) ==
    [req |-> request, authorization |-> header, res |-> response]

\* process.env.CRON_SECRET || "test-cron-secret"
cronSecret == IF CRON_SECRET # "" THEN CRON_SECRET ELSE "test-cron-secret"

\* `Bearer ${cronSecret}`
expected == "Bearer " \o cronSecret

\* The values process.env.CRON_SECRET is given.
CronSecrets == {"", "s3cr3t"}

\* The Authorization headers the requests carry.
AuthorizationHeaders ==
    {"", "Bearer test-cron-secret", "Bearer wrong-secret", "Bearer s3cr3t",
     "test-cron-secret", "bearer test-cron-secret"}

\* The body of a manual backup (createdAt, the time of the request, left out).
ManualBackup ==
    [version |-> Str("1.0"), type |-> Str("manual")]

\* The body of a cron backup (createdAt left out).
CronBackup ==
    [success |-> Bool(TRUE), recordCount |-> Num(0, 1)]

BackupInit ==
    /\ isLoggedIn = FALSE
    /\ CRON_SECRET = ""
    /\ backupLog = <<>>

\* The environment the application is started in.
SetCronSecret(secret) ==
    /\ backupLog = <<>>
    /\ CRON_SECRET = ""
    /\ secret # ""
    /\ CRON_SECRET' = secret
    /\ UNCHANGED <<isLoggedIn, backupLog>>
    /\ UNCHANGED notBackupVars

\* POST /test/login
TestLogin ==
    /\ Len(backupLog) < MaxExchanges
    /\ isLoggedIn' = TRUE
    /\ backupLog' = Append(backupLog,
            BackupExchange(Request("POST", "/test/login", "", EmptyObject), "",
                           Json(200, Prop("ok", Bool(TRUE)))))
    /\ UNCHANGED CRON_SECRET
    /\ UNCHANGED notBackupVars

\* POST /api/backup
PostBackup ==
    /\ Len(backupLog) < MaxExchanges
    /\ backupLog' = Append(backupLog,
            BackupExchange(Request("POST", "/api/backup", "", EmptyObject), "",
                           IF ~isLoggedIn THEN NotAuthenticated
                           ELSE Json(200, ManualBackup)))
    /\ UNCHANGED <<isLoggedIn, CRON_SECRET>>
    /\ UNCHANGED notBackupVars

\* POST /api/backup/cron that also accepted a logged-in session.
PostBackupCronOrSession(authHeader) ==
    /\ Len(backupLog) < MaxExchanges
    /\ backupLog' = Append(backupLog,
            BackupExchange(Request("POST", "/api/backup/cron", "", EmptyObject), authHeader,
                           IF authHeader # expected /\ ~isLoggedIn
                           THEN Error(401, "Unauthorized")
                           ELSE Json(200, CronBackup)))
    /\ UNCHANGED <<isLoggedIn, CRON_SECRET>>
    /\ UNCHANGED notBackupVars

\* POST /api/backup/cron
PostBackupCron(authHeader) ==
    /\ Len(backupLog) < MaxExchanges
    /\ backupLog' = Append(backupLog,
            BackupExchange(Request("POST", "/api/backup/cron", "", EmptyObject), authHeader,
                           IF authHeader # expected
                           THEN Error(401, "Unauthorized")
                           ELSE Json(200, CronBackup)))
    /\ UNCHANGED <<isLoggedIn, CRON_SECRET>>
    /\ UNCHANGED notBackupVars

\* GET /api/backup/history
GetBackupHistory ==
    /\ Len(backupLog) < MaxExchanges
    /\ backupLog' = Append(backupLog,
            BackupExchange(Request("GET", "/api/backup/history", "", EmptyObject), "",
                           IF ~isLoggedIn THEN NotAuthenticated
                           ELSE JsonArray(200, <<>>)))
    /\ UNCHANGED <<isLoggedIn, CRON_SECRET>>
    /\ UNCHANGED notBackupVars

BackupNext ==
    \/ \E secret \in CronSecrets : SetCronSecret(secret)
    \/ TestLogin
    \/ PostBackup
    \/ \E authHeader \in AuthorizationHeaders : PostBackupCron(authHeader)
    \/ GetBackupHistory

-----------------------------------------------------------------------------
(* log and shouldLog, with config.logLevel *)

\* The values process.env.LOG_LEVEL is given ("" when unset).
LogLevels == {"", "error", "warn", "info", "debug", "WARN"}

\* The levels a caller of log may pass.
Levels == {"info", "warn", "error"}

\* const levels = ["error", "warn", "info"]
levels == <<"error", "warn", "info">>

\* Array.prototype.indexOf: the first position (from 0), or -1.
indexOf(seq, x) ==
    IF \E i \in 1..Len(seq) : seq[i] = x
    THEN (CHOOSE i \in 1..Len(seq) : seq[i] = x /\ \A j \in 1..(i - 1) : seq[j] # x) - 1
    ELSE -1

\* String.prototype.toUpperCase, on the levels.
toUpperCase(s) ==
    CASE s = "info" -> "INFO"
      [] s = "warn" -> "WARN"
      [] s = "error" -> "ERROR"
      [] OTHER -> s

shouldLog(level) ==
    LET current == indexOf(levels, logLevel)
        incoming == indexOf(levels, level)
    IN  incoming <= current

\* The line written (its timestamp, the time of the call, left out).
output(level, message) == "[" \o toUpperCase(level) \o "] " \o message

LogInit ==
    /\ logLevel = "info"
    /\ logCalls = <<>>
    /\ console = <<>>

\* config.ts, loaded with LOG_LEVEL set: process.env.LOG_LEVEL || "info".
LoadConfig(LOG_LEVEL) ==
    /\ logCalls = <<>>
    /\ logLevel' = IF LOG_LEVEL # "" THEN LOG_LEVEL ELSE "info"
    /\ logLevel' # logLevel
    /\ UNCHANGED <<logCalls, console>>
    /\ UNCHANGED notLogVars

\* log(level, message, meta); hasMeta tells whether meta was passed.
log(level, message, hasMeta) ==
    /\ Len(logCalls) < MaxLogCalls
    /\ logCalls' = Append(logCalls, [level |-> level, message |-> message, meta |-> hasMeta])
    /\ console' = IF shouldLog(level)
                  THEN Append(console, [method |-> level, output |-> output(level, message),
                                        meta |-> hasMeta])
                  ELSE console
    /\ UNCHANGED logLevel
    /\ UNCHANGED notLogVars

LogNext ==
    \/ \E LOG_LEVEL \in LogLevels : LoadConfig(LOG_LEVEL)
    \/ \E level \in Levels, hasMeta \in BOOLEAN : log(level, "Server started", hasMeta)

Init ==
    /\ StoreInit /\ AppInit /\ SchemaInit /\ UiInit
    /\ AuthInit /\ BackupInit /\ LogInit

\* The storage layer used on its own, as the storage unit tests use it.
StoreSpec == Init /\ [][StoreNext]_vars

\* The HTTP application, which keeps its own maps and counter.
AppSpec == Init /\ [][AppNext]_vars

\* The insert schemas applied to candidate inputs, as the schema tests do.
SchemaSpec == Init /\ [][SchemaNext]_vars

\* The route collection with its endpoints addressed by id.
RouteApiSpec == Init /\ [][RouteApiNext]_vars

\* One client session of the route optimizer.
UiSpec == Init /\ [][UiNext]_vars

\* The shop endpoints, with requests whose body cannot be parsed.
ShopApiSpec == Init /\ [][ShopApiNext]_vars

\* The authentication application.
AuthSpec == Init /\ [][AuthNext]_vars

\* The backup application.
BackupSpec == Init /\ [][BackupNext]_vars

\* The logger.
LogSpec == Init /\ [][LogNext]_vars

-----------------------------------------------------------------------------
(* Properties of TestMemStorage, checked under StoreSpec *)

\* The map of a kind.
MapOf(kind) ==
    CASE kind = "Shop" -> shops
      [] kind = "Driver" -> drivers
      [] kind = "Route" -> routes
      [] kind = "Target" -> targets

\* The map of a kind after the step.
MapAfter(kind) ==
    CASE kind = "Shop" -> shops'
      [] kind = "Driver" -> drivers'
      [] kind = "Route" -> routes'
      [] kind = "Target" -> targets'

\* C1: the ids returned by the create methods of one store are pairwise
\* distinct, over all four kinds and whatever was deleted in between.
C1_IdsPairwiseDistinct ==
    \A i, j \in 1..Len(issued) : i # j => issued[i] # issued[j]

\* A create has returned the store's last id after some record was deleted.
C1_Witness ==
    /\ call.op = "create"
    /\ Len(issued) = MaxIds
    /\ deleted # {}

\* C2: an update of a stored id returns the old record with exactly the
\* patch's properties replaced, stores that record under the same id, and a
\* get of the id that follows returns it.
C2_UpdateMergesPatch ==
    [][ /\ (call'.op = "update" /\ MapHas(MapOf(call'.kind), call'.id)) =>
            LET old == MapGet(MapOf(call'.kind), call'.id)
                patch == call'.data
            IN  /\ ret'.t = "record"
                /\ DOMAIN ret'.rec = (DOMAIN old) \cup (DOMAIN patch)
                /\ \A f \in DOMAIN patch : ret'.rec[f] = patch[f]
                /\ \A f \in (DOMAIN old) \ (DOMAIN patch) : ret'.rec[f] = old[f]
                /\ MapHas(MapAfter(call'.kind), call'.id)
                /\ MapGet(MapAfter(call'.kind), call'.id) = ret'.rec
        /\ (/\ call.op = "update" /\ ret.t = "record"
            /\ call'.op = "get" /\ call'.kind = call.kind /\ call'.id = call.id) =>
            ret' = ret
      ]_vars

\* A Target's progress was patched and its target counts were not in the patch.
C2_Witness ==
    /\ call.op = "update" /\ call.kind = "Target" /\ ret.t = "record"
    /\ ret.rec["completedShops"] = Num(5, 1)
    /\ ret.rec["targetShops"] = Num(10, 1)
    /\ "targetShops" \notin DOMAIN call.data

\* C3: an update of an id the kind's map does not hold returns undefined and
\* changes no map and no counter.
C3_UpdateUnknownIdNoMutation ==
    [][ (call'.op = "update" /\ ~MapHas(MapOf(call'.kind), call'.id)) =>
            /\ ret' = RetUndefined
            /\ UNCHANGED <<shops, drivers, routes, targets, idCounter>>
      ]_vars

\* An update of an unknown id was answered while the store held records.
C3_Witness ==
    /\ call.op = "update" /\ call.kind = "Shop" /\ ret = RetUndefined
    /\ Len(shops) > 0

\* C4: delete returns true exactly when the id was stored, removes that
\* record and no other, and a second delete of the same id right after it
\* returns false and changes nothing.
C4_DeleteExactlyOnce ==
    [][ call'.op = "delete" =>
            LET m == MapOf(call'.kind)
                after == MapAfter(call'.kind)
                had == MapHas(m, call'.id)
            IN  /\ ret' = RetBool(had)
                /\ MapKeys(after) = MapKeys(m) \ {call'.id}
                /\ Len(after) = Len(m) - (IF had THEN 1 ELSE 0)
                /\ \A k \in MapKeys(after) : MapGet(after, k) = MapGet(m, k)
                /\ \A kind \in Kinds \ {call'.kind} : MapAfter(kind) = MapOf(kind)
                /\ (call.op = "delete" /\ call.kind = call'.kind /\ call.id = call'.id) =>
                       /\ ret' = RetBool(FALSE)
                       /\ UNCHANGED <<shops, drivers, routes, targets>>
      ]_vars

\* A delete that removed one of several records has returned true.
C4_Witness ==
    /\ call.op = "delete" /\ call.kind = "Shop" /\ ret = RetBool(TRUE)
    /\ Len(shops) > 0

\* C5: an id whose delete returned true is in no map any more, whatever was
\* called since: get and update of it return undefined and getAll lists only
\* what the maps hold.
C5_DeletedStaysGone ==
    /\ \A id \in deleted, kind \in Kinds : ~MapHas(MapOf(kind), id)
    /\ (call.op \in {"get", "update"} /\ call.id \in deleted) => ret = RetUndefined
    /\ call.op = "getAll" => ret = RetList(MapValues(MapOf(call.kind)))

\* A get of a deleted id was answered after the store issued all its ids.
C5_Witness ==
    /\ call.op = "get" /\ call.id \in deleted /\ ret = RetUndefined
    /\ Len(issued) = MaxIds
    /\ Len(shops) + Len(drivers) + Len(routes) + Len(targets) > 0

\* C6: every stored record's id property is the key its map holds it under
\* (the id create returned), whatever properties callers passed.
C6_IdNeverChanges ==
    \A kind \in Kinds : \A i \in 1..Len(MapOf(kind)) :
        /\ "id" \in DOMAIN MapOf(kind)[i].value
        /\ MapOf(kind)[i].value["id"] = Str(MapOf(kind)[i].key)

\* C7: the record create returns is the record stored under its id, and
\* it stays the stored record until an update or delete of that id; get
\* returns the stored record.
C7_CreateThenGet ==
    [][ /\ call'.op = "create" =>
            /\ ret'.t = "record"
            /\ MapHas(MapAfter(call'.kind), ret'.rec["id"].s)
            /\ MapGet(MapAfter(call'.kind), ret'.rec["id"].s) = ret'.rec
        /\ \A kind \in Kinds :
            \/ MapAfter(kind) = MapOf(kind)
            \/ \A id \in MapKeys(MapOf(kind)) :
                ~(call'.op \in {"update", "delete"} /\ call'.kind = kind /\ call'.id = id) =>
                    /\ MapHas(MapAfter(kind), id)
                    /\ MapGet(MapAfter(kind), id) = MapGet(MapOf(kind), id)
        /\ (call'.op = "get" /\ MapHas(MapOf(call'.kind), call'.id)) =>
            ret' = RetRecord(MapGet(MapOf(call'.kind), call'.id))
      ]_vars

\* A get returned a Driver exactly as createDriver built it.
C7_Witness ==
    /\ call.op = "get" /\ call.kind = "Driver" /\ ret.t = "record"
    /\ \E data \in DriverData : ret.rec = Spread(data, Prop("id", Str(call.id)))
    /\ idCounter = MaxIds

\* The position at which the store issued an id.
IssueIndex(id) == CHOOSE n \in 1..Len(issued) : issued[n] = id

C28_OtherKindsUntouched ==
    [][ call'.kind \in Kinds =>
            /\ \A kind \in Kinds \ {call'.kind} : MapAfter(kind) = MapOf(kind)
            /\ (call'.op = "create" /\ call'.kind = "Route") =>
                  /\ ret'.t = "record"
                  /\ ret'.rec.shopIds = call'.data.shopIds
                  /\ MapHas(routes', ret'.rec.id.s)
      ]_vars

\* The shop a stored route visits was deleted, and the route still names it.
C28_Witness ==
    /\ call.op = "delete" /\ call.kind = "Shop" /\ call.id = "test-id-1"
    /\ ret = RetBool(TRUE)
    /\ Len(routes) = 1
    /\ routes[1].value.shopIds = Arr(<<"test-id-1", "shop-2">>)
    /\ ~MapHas(shops, "shop-2")

\* The statuses the domain names for a driver and for a route.
driverStatuses == {"available", "on_route", "off_duty"}
routeStatuses == {"planned", "in_progress", "completed"}

\* C13: every stored Driver has a status among available, on_route and
\* off_duty, and every stored Route one among planned, in_progress and
\* completed, after any creates and updates.
C13_StatusInEnum ==
    /\ \A i \in 1..Len(drivers) :
          /\ "status" \in DOMAIN drivers[i].value
          /\ drivers[i].value.status.s \in driverStatuses
    /\ \A i \in 1..Len(routes) :
          /\ "status" \in DOMAIN routes[i].value
          /\ routes[i].value.status.s \in routeStatuses

-----------------------------------------------------------------------------
(* Properties of the HTTP application, checked under AppSpec *)

\* The properties a POST to a collection requires.
Required(path) ==
    CASE path = "/api/shops" -> ShopRequired
      [] path = "/api/drivers" -> DriverRequired
      [] path = "/api/routes" -> RouteRequired
      [] path = "/api/targets" -> TargetRequired
      [] OTHER -> {}

\* The defaults of a kind's defaulted properties.
Defaults(path) ==
    CASE path = "/api/shops" -> [category |-> Str("retail"), status |-> Str("active")]
      [] path = "/api/drivers" -> [status |-> Str("available")]
      [] path = "/api/routes" -> [status |-> Str("planned"), shopIds |-> Arr(<<>>)]
      [] path = "/api/targets" ->
            [completedShops |-> Num(0, 1), completedDeliveries |-> Num(0, 1)]
      [] OTHER -> EmptyObject

\* C9: a record created without a defaulted property carries the kind's
\* default for it, and a value the caller supplied for it is kept.
C9_DefaultsFilled ==
    (req.method = "POST" /\ res.status = 201) =>
        \A f \in DOMAIN Defaults(req.path) :
            /\ f \in DOMAIN res.rec
            /\ res.rec[f] = IF f \in DOMAIN req.body THEN req.body[f] ELSE Defaults(req.path)[f]

\* C10: a POST whose body lacks a required property of its kind is answered
\* 400 and adds no record to any collection.
C10_MissingRequiredRejected ==
    [][ (req'.method = "POST" /\ \E f \in Required(req'.path) : f \notin DOMAIN req'.body) =>
            /\ res'.status = 400
            /\ UNCHANGED <<appShops, appDrivers, appRoutes, appTargets, appIdCounter>>
      ]_vars

\* A Target without endDate was refused while the application held records.
C10_Witness ==
    /\ req.method = "POST" /\ req.path = "/api/targets"
    /\ DOMAIN req.body = TargetRequired \ {"endDate"}
    /\ res.status = 400
    /\ appIdCounter > 0


NumericFields == {"latitude", "longitude"}

\* C11: a POST /api/shops whose latitude or longitude is present and not a
\* number (a numeric-looking string included) is answered 400 and creates no
\* record.
C11_NonNumericCoordinateRejected ==
    [][ (/\ req'.method = "POST" /\ req'.path = "/api/shops"
         /\ \E f \in NumericFields \cap DOMAIN req'.body : req'.body[f].t # "number") =>
            /\ res'.status = 400
            /\ UNCHANGED <<appShops, appDrivers, appRoutes, appTargets, appIdCounter>>
      ]_vars

IntegerFields ==
    {"targetShops", "targetDeliveries", "completedShops", "completedDeliveries"}

\* A number with a fractional part.
Fractional(v) == v.t = "number" /\ v.n % v.d # 0

\* C12: a POST /api/targets one of whose integer counters is a fractional
\* number is answered 400 and creates no record.
C12_FractionalCounterRejected ==
    [][ (/\ req'.method = "POST" /\ req'.path = "/api/targets"
         /\ \E f \in IntegerFields \cap DOMAIN req'.body : Fractional(req'.body[f])) =>
            /\ res'.status = 400
            /\ UNCHANGED <<appShops, appDrivers, appRoutes, appTargets, appIdCounter>>
      ]_vars

\* C14: GET, PATCH and DELETE of /collection/{id} answer 200, 200 and 204
\* when the id is stored in the collection, and 404 when it is not; a request
\* answered 404 changes nothing in the application.
C14_ByIdFoundOrNotFound ==
    [][ req'.path \in {"/api/shops/:id", "/api/drivers/:id"} =>
          LET before == IF req'.path = "/api/shops/:id" THEN appShops ELSE appDrivers
              after == IF req'.path = "/api/shops/:id" THEN appShops' ELSE appDrivers'
          IN  IF MapHas(before, req'.id)
              THEN CASE req'.method = "GET" ->
                            res' = Json(200, MapGet(before, req'.id)) /\ after = before
                     [] req'.method = "PATCH" ->
                            /\ res' = Json(200, Spread(MapGet(before, req'.id), req'.body))
                            /\ MapGet(after, req'.id) = res'.rec
                     [] req'.method = "DELETE" ->
                            res' = Send(204) /\ ~MapHas(after, req'.id)
                     [] OTHER -> FALSE
              ELSE /\ res'.status = 404
                   /\ UNCHANGED <<appShops, appDrivers, appRoutes, appTargets, appIdCounter>>
      ]_vars

\* A DELETE of a driver id that the drivers do not hold was answered 404
\* while another driver was stored.
C14_Witness ==
    /\ req.method = "DELETE" /\ req.path = "/api/drivers/:id"
    /\ req.id = "test-1"
    /\ res.status = 404
    /\ Len(appDrivers) = 1

\* C19: a PATCH of a stored shop is never answered 400: whatever the patch
\* holds, the answer is 200 with the stored record merged with the patch, and
\* that merged record is what the application stores.
C19_PatchNeverValidated ==
    [][ (req'.method = "PATCH" /\ MapHas(appShops, req'.id)) =>
            /\ res'.status # 400
            /\ res' = Json(200, [f \in (DOMAIN MapGet(appShops, req'.id)) \cup (DOMAIN req'.body) |->
                                    IF f \in DOMAIN req'.body
                                    THEN req'.body[f]
                                    ELSE MapGet(appShops, req'.id)[f]])
            /\ MapHas(appShops', req'.id)
            /\ MapGet(appShops', req'.id) = res'.rec
      ]_vars

\* A patch that a create would have refused (an empty name, a latitude that
\* is a string) was answered 200 and is stored.
C19_Witness ==
    /\ req.method = "PATCH" /\ res.status = 200
    /\ res.rec.name = Str("") /\ res.rec.latitude = Str("not-a-number")
    /\ MapHas(appShops, req.id) /\ MapGet(appShops, req.id) = res.rec

\* C27: a POST answered 400 adds no record and consumes no id: the counter
\* moves only with a POST answered 201, by one, and the record of that POST
\* is stored under the id that follows the number of creates answered 201
\* so far.
C27_RejectedCreateConsumesNothing ==
    [][ /\ (req'.method = "POST" /\ res'.status = 400) =>
              UNCHANGED <<appShops, appDrivers, appRoutes, appTargets, appIdCounter>>
        /\ appIdCounter' # appIdCounter =>
              /\ req'.method = "POST" /\ res'.status = 201
              /\ appIdCounter' = appIdCounter + 1
        /\ (req'.method = "POST" /\ res'.status = 201) =>
              LET id == "test-" \o ToString(appIdCounter + 1)
                  after == CASE req'.path = "/api/shops" -> appShops'
                             [] req'.path = "/api/drivers" -> appDrivers'
                             [] req'.path = "/api/routes" -> appRoutes'
                             [] req'.path = "/api/targets" -> appTargets'
              IN  /\ appIdCounter' = appIdCounter + 1
                  /\ MapHas(after, id)
                  /\ MapGet(after, id) = res'.rec
      ]_vars

\* A driver without a phone was refused after one driver had been created:
\* one id issued, one driver stored.
C27_Witness ==
    /\ req.method = "POST" /\ req.path = "/api/drivers"
    /\ res.status = 400
    /\ appIdCounter = 1 /\ Len(appDrivers) = 1

-----------------------------------------------------------------------------
(* Properties of the route endpoints, checked under RouteApiSpec *)

\* C15: a POST of {name, date} is answered 201 with status "planned" and
\* shopIds []; a GET of the created id returns the identical record; after a
\* PATCH of {status: "in_progress"} the record and a GET of it show the new
\* status with name and date unchanged; after a DELETE a GET of the id is
\* answered 404.
C15_RouteLifecycle ==
    [][ /\ (req'.method = "POST" /\ req'.body = MinimalRoute) =>
              /\ res'.status = 201
              /\ "status" \in DOMAIN res'.rec /\ res'.rec.status = Str("planned")
              /\ "shopIds" \in DOMAIN res'.rec /\ res'.rec.shopIds = Arr(<<>>)
              /\ res'.rec.name = req'.body.name /\ res'.rec.date = req'.body.date
        /\ (/\ req.method = "POST" /\ res.status = 201
            /\ req'.method = "GET" /\ req'.path = "/api/routes/:id"
            /\ req'.id = res.rec.id.s) =>
              res' = Json(200, res.rec)
        /\ (req'.method = "PATCH" /\ MapHas(appRoutes, req'.id)) =>
              /\ res'.status = 200
              /\ MapGet(appRoutes', req'.id).status = req'.body.status
              /\ MapGet(appRoutes', req'.id).name = MapGet(appRoutes, req'.id).name
              /\ MapGet(appRoutes', req'.id).date = MapGet(appRoutes, req'.id).date
        /\ (/\ req.method = "PATCH" /\ res.status = 200
            /\ req'.method = "GET" /\ req'.path = "/api/routes/:id"
            /\ req'.id = req.id) =>
              /\ res'.status = 200
              /\ res'.rec.status = req.body.status
              /\ res'.rec.name = res.rec.name /\ res'.rec.date = res.rec.date
        /\ (/\ req.method = "DELETE" /\ res.status = 204
            /\ req'.method = "GET" /\ req'.path = "/api/routes/:id"
            /\ req'.id = req.id) =>
              res'.status = 404
      ]_vars

\* A GET of the first id issued was answered 404: the route had been created
\* and deleted.
C15_Witness ==
    /\ req.method = "GET" /\ req.path = "/api/routes/:id"
    /\ req.id = "test-1" /\ res.status = 404
    /\ appIdCounter >= 1

-----------------------------------------------------------------------------
(* Properties of the route optimizer, checked under UiSpec *)

\* C16: at most one optimization request of a client session is in flight,
\* and one is in flight exactly while the mutation is pending.
C16_AtMostOneInFlight ==
    /\ Len(inFlight) <= 1
    /\ isPending <=> Len(inFlight) = 1

\* A later request is in flight, for a route other than the one now selected.
C16_Witness ==
    /\ isPending
    /\ sent >= 2
    /\ Len(inFlight) = 1 /\ inFlight[1] # selectedRoute

C18_FailureReportedOnce ==
    [][ (Len(inFlight') < Len(inFlight) /\ mutation'.status = "error") =>
            /\ toasts' = Append(toasts, Toast("Optimization Failed", "", "destructive"))
            /\ Banner' = "Error optimizing route. Please try again."
            /\ sent' = sent
            /\ inFlight' = <<>>
      ]_vars

\* Two requests failed, the last for want of a response; both notices are
\* the same.
C18_Witness ==
    /\ isError /\ mutation.error = <<"Failed to fetch">>
    /\ sent = 2 /\ inFlight = <<>>
    /\ Len(toasts) = 2 /\ toasts[1] = toasts[2]

-----------------------------------------------------------------------------
(* Properties of the insert schemas, checked under SchemaSpec *)

SchemaOf(kind) ==
    CASE kind = "Shop" -> insertShopSchema
      [] kind = "Driver" -> insertDriverSchema
      [] kind = "Route" -> insertRouteSchema
      [] kind = "Target" -> insertTargetSchema

RequiredOf(kind) ==
    CASE kind = "Shop" -> ShopRequired
      [] kind = "Driver" -> DriverRequired
      [] kind = "Route" -> RouteRequired
      [] kind = "Target" -> TargetRequired

DefaultedOf(kind) ==
    CASE kind = "Shop" -> {"category", "status"}
      [] kind = "Driver" -> {"status"}
      [] kind = "Route" -> {"status", "shopIds"}
      [] kind = "Target" -> {"completedShops", "completedDeliveries"}

\* The type a field holds, by its name.
TypeOf(f) ==
    CASE f \in {"latitude", "longitude", "currentLatitude", "currentLongitude",
                "estimatedDistance", "estimatedTime"} \cup IntegerFields -> "number"
      [] f = "shopIds" -> "array"
      [] OTHER -> "string"

\* The value is of the field's type: a required string is not empty and an
\* integer counter has no fractional part.
WellTyped(kind, f, v) ==
    /\ v.t = TypeOf(f)
    /\ (f \in RequiredOf(kind) /\ TypeOf(f) = "string") => v.s # ""
    /\ f \in IntegerFields => v.n % v.d = 0

RequiredOk(kind, input) ==
    \A f \in RequiredOf(kind) : f \in DOMAIN input /\ WellTyped(kind, f, input[f])

\* C20 as stated: an input is accepted exactly when its required fields are
\* all present and well-typed, whatever its other fields hold.
C20_OnlyRequiredFieldsMatter ==
    parsed.kind # "none" =>
        (parsed.result.success <=> RequiredOk(parsed.kind, parsed.input))

\* C20, amended: an input is accepted exactly when its required fields are
\* all present and well-typed and each optional or defaulted field it holds is
\* well-typed too (null only for an optional field, never for a defaulted
\* one); the fields the schema does not name never matter.
C20_PresentFieldsMustBeWellTyped ==
    parsed.kind # "none" =>
        LET kind == parsed.kind
            input == parsed.input
            others == ((DOMAIN SchemaOf(kind)) \ RequiredOf(kind)) \cap DOMAIN input
        IN  parsed.result.success <=>
                /\ RequiredOk(kind, input)
                /\ \A f \in others :
                      IF input[f].t = "null"
                      THEN f \notin DefaultedOf(kind)
                      ELSE WellTyped(kind, f, input[f])

\* A shop with its required fields, a null ownerName and a field the schema
\* does not name was accepted.
C20_Witness ==
    /\ parsed.kind = "Shop" /\ parsed.result.success
    /\ "color" \in DOMAIN parsed.input
    /\ "ownerName" \in DOMAIN parsed.input /\ parsed.input.ownerName = Null


\* The field violates its constraint in the input: a required field is
\* missing, a field that may not be null is null, or the value is mistyped.
Violates(kind, input, f) ==
    IF f \notin DOMAIN input
    THEN f \in RequiredOf(kind)
    ELSE IF input[f].t = "null"
         THEN f \in RequiredOf(kind) \cup DefaultedOf(kind)
         ELSE ~WellTyped(kind, f, input[f])

-----------------------------------------------------------------------------
(* Properties of the error handler, checked under ShopApiSpec *)

\* C22: the body of a 500 response is the same whatever the error was.
C22_GenericErrorMessage ==
    res.status = 500 => res = Error(500, "Internal Server Error")


-----------------------------------------------------------------------------
(* Properties of the authentication application, checked under AuthSpec *)

\* Among the first k requests there is a login answered 200 with no logout
\* after it.
LoggedInAfter(k) ==
    \E i \in 1..k :
        /\ authLog[i].req.path = "/api/auth/login" /\ authLog[i].res.status = 200
        /\ \A j \in (i + 1)..k : authLog[j].req.path # "/api/auth/logout"

GuardedPaths == {"/api/protected", "/api/auth/user"}

\* C23: a request to a guarded endpoint is answered 200 exactly when a login
\* answered 200 precedes it with no logout in between, and 401 otherwise.
C23_GuardedByLastLogin ==
    \A k \in 1..Len(authLog) :
        authLog[k].req.path \in GuardedPaths =>
            /\ authLog[k].res.status \in {200, 401}
            /\ authLog[k].res.status = 200 <=> LoggedInAfter(k - 1)

\* A login, a logout, then a guarded request that was refused.
C23_Witness ==
    /\ Len(authLog) = 3
    /\ authLog[1].req.path = "/api/auth/login" /\ authLog[1].res.status = 200
    /\ authLog[2].req.path = "/api/auth/logout"
    /\ authLog[3].req.path = "/api/protected" /\ authLog[3].res.status = 401

\* C24: no response of the login and current-user endpoints has a
\* passwordHash property or holds the hash; their 200 responses have the id,
\* the email and the role of the user and nothing else.
C24_NoPasswordHash ==
    \A k \in 1..Len(authLog) :
        authLog[k].req.path \in {"/api/auth/login", "/api/auth/user"} =>
            /\ "passwordHash" \notin DOMAIN authLog[k].res.rec
            /\ \A f \in DOMAIN authLog[k].res.rec :
                  authLog[k].res.rec[f] # Str("$2a$10$hashedpassword")
            /\ authLog[k].res.status = 200 =>
                  DOMAIN authLog[k].res.rec = {"id", "email", "role"}

\* A login and a current-user request were both answered 200.
C24_Witness ==
    /\ Len(authLog) >= 2
    /\ authLog[1].req.path = "/api/auth/login" /\ authLog[1].res.status = 200
    /\ authLog[2].req.path = "/api/auth/user" /\ authLog[2].res.status = 200
    /\ authLog[2].res.rec.email = Str("admin@test.com")

\* The request carries an email that is not empty.
HasEmail(exchange) ==
    /\ "email" \in DOMAIN exchange.req.body
    /\ exchange.req.body.email.t = "string"
    /\ exchange.req.body.email.s # ""

\* C25: two forgot-password requests that carry an email get the same
\* response, 200 with success true, whether or not the email is registered;
\* a request is answered 400 exactly when it carries no email.
C25_ForgotPasswordRevealsNothing ==
    \A i, j \in 1..Len(authLog) :
        (/\ authLog[i].req.path = "/api/auth/forgot-password"
         /\ authLog[j].req.path = "/api/auth/forgot-password") =>
            /\ (HasEmail(authLog[i]) /\ HasEmail(authLog[j])) =>
                  /\ authLog[i].res = authLog[j].res
                  /\ authLog[i].res.status = 200
                  /\ authLog[i].res.rec.success = Bool(TRUE)
            /\ authLog[i].res.status = 400 <=> ~HasEmail(authLog[i])

\* A registered and an unregistered email were both answered.
C25_Witness ==
    /\ Len(authLog) >= 2
    /\ authLog[1].req.path = "/api/auth/forgot-password"
    /\ authLog[1].req.body = Prop("email", Str("admin@test.com"))
    /\ authLog[2].req.path = "/api/auth/forgot-password"
    /\ authLog[2].req.body = Prop("email", Str("fake@test.com"))
    /\ authLog[1].res.status = 200 /\ authLog[2].res.status = 200

\* C29: a login that is not answered 200 leaves the session as it was.
C29_FailedLoginKeepsSession ==
    [][ (/\ Len(authLog') = Len(authLog) + 1
         /\ authLog'[Len(authLog')].req.path = "/api/auth/login"
         /\ authLog'[Len(authLog')].res.status # 200) =>
            currentSession' = currentSession
      ]_vars

\* A login with a wrong password was refused while a session was valid,
\* and the session is still there.
C29_Witness ==
    /\ Len(authLog) >= 2
    /\ authLog[Len(authLog)].req.path = "/api/auth/login"
    /\ "password" \in DOMAIN authLog[Len(authLog)].req.body
    /\ authLog[Len(authLog)].req.body.password = Str("wrong-password")
    /\ authLog[Len(authLog)].res.status = 401
    /\ currentSession = Session("u1")

-----------------------------------------------------------------------------
(* Properties of the backup application, checked under BackupSpec *)

\* C26: POST /api/backup/cron is answered 200 exactly when its Authorization
\* header is "Bearer " followed by the configured secret, and 401 otherwise,
\* logged in or not; POST /api/backup and GET /api/backup/history are
\* answered 200 exactly when a login precedes them, and 401 otherwise.
C26_CronBySecretBackupBySession ==
    \A k \in 1..Len(backupLog) :
        LET e == backupLog[k]
            secret == IF CRON_SECRET = "" THEN "test-cron-secret" ELSE CRON_SECRET
        IN  /\ e.req.path = "/api/backup/cron" =>
                  /\ e.res.status \in {200, 401}
                  /\ e.res.status = 200 <=> e.authorization = "Bearer " \o secret
            /\ e.req.path \in {"/api/backup", "/api/backup/history"} =>
                  /\ e.res.status \in {200, 401}
                  /\ e.res.status = 200 <=>
                        \E i \in 1..(k - 1) : backupLog[i].req.path = "/test/login"

\* With a secret configured and a session logged in, the cron endpoint
\* refused the default secret and accepted the configured one.
C26_Witness ==
    /\ CRON_SECRET = "s3cr3t"
    /\ Len(backupLog) = 3
    /\ backupLog[1].req.path = "/test/login"
    /\ backupLog[2].req.path = "/api/backup/cron"
    /\ backupLog[2].authorization = "Bearer test-cron-secret"
    /\ backupLog[2].res.status = 401
    /\ backupLog[3].req.path = "/api/backup/cron"
    /\ backupLog[3].authorization = "Bearer s3cr3t"
    /\ backupLog[3].res.status = 200


-----------------------------------------------------------------------------
(* Properties of the logger, checked under LogSpec *)

\* The severity of a level: error above warn above info.
Severity(level) ==
    CASE level = "error" -> 3
      [] level = "warn" -> 2
      [] level = "info" -> 1

\* C30: a call of log writes its message exactly when its level is at least
\* as severe as the configured level, and a call at level error writes its
\* message whatever LOG_LEVEL was set to.
C30_EmittedBySeverity ==
    [][ Len(logCalls') = Len(logCalls) + 1 =>
            LET level == logCalls'[Len(logCalls')].level
                emitted == Len(console') = Len(console) + 1
            IN  /\ logLevel \in Levels =>
                      (emitted <=> Severity(level) >= Severity(logLevel))
                /\ level = "error" => emitted
      ]_vars

====
